---- MODULE Spec2Model ----
(***************************************************************************)
(* Completeness analysis of bemserver-core: the bucket grid generator      *)
(* gen_seconds_per_bucket and the completeness calculator                  *)
(* compute_completeness, as exercised by tests/process/test_completeness.py*)
(* and tests/analysis/test_completeness.py.                                *)
(*                                                                         *)
(* Time is counted in seconds.  A naive (wall clock) datetime is the       *)
(* number of seconds since 1970-01-01 00:00:00 on its own clock; an aware  *)
(* datetime is a record [wall |-> naive datetime, tz |-> zone name].       *)
(* Stored sample timestamps are instants (seconds since the epoch, UTC).   *)
(* Non-integer numbers (interval, expected count, ratio) are exact         *)
(* fractions <<numerator, denominator>> in lowest terms; None is <<>>.     *)
(***************************************************************************)
EXTENDS Integers, Sequences, FiniteSets, TLC

VARIABLES
    ts_data,      \* timeseries id -> set of stored sample instants (data state "Raw")
    ts_interval,  \* timeseries id -> value of the "Interval" property, or None
    call,         \* the arguments of the call under way or last made, or None
    ret,          \* what that call returned or raised; None while it has not run
    invocations,  \* compute_completeness calls running side by side: each one's
                  \* arguments, position, and what it has fetched so far
    st_dl_weather_data_by_site,  \* table st_dl_weather_data_by_site: site id -> is_enabled
    task,         \* the download weather data task: entry point, arguments,
                  \* position, locals start_dt and end_dt, rows left to visit
    wdp_calls,    \* the calls made to wdp.get_weather_data_for_site, in order
    logger,       \* the records logged, in order
    commits       \* the number of db.session.commit() made

completeness_vars == <<ts_data, ts_interval, call, ret>>
weather_vars == <<st_dl_weather_data_by_site, task, wdp_calls, logger, commits>>

vars == <<ts_data, ts_interval, call, ret, invocations,
          st_dl_weather_data_by_site, task, wdp_calls, logger, commits>>

None == <<>>

(***************************************************************************)
(* Calendar arithmetic (datetime / pandas offsets), proleptic Gregorian.   *)
(***************************************************************************)
SecondsPerMinute == 60
SecondsPerHour == 3600
SecondsPerDay == 24 * SecondsPerHour

\* Number of days from 1970-01-01 to the civil date y-m-d (may be negative).
DaysFromCivil(y, m, d) ==
    LET yy  == IF m <= 2 THEN y - 1 ELSE y
        era == yy \div 400
        yoe == yy - era * 400
        mp  == IF m > 2 THEN m - 3 ELSE m + 9
        doy == (153 * mp + 2) \div 5 + d - 1
        doe == yoe * 365 + yoe \div 4 - yoe \div 100 + doy
    IN  era * 146097 + doe - 719468

\* The civil date <<y, m, d>> of day number z (days since 1970-01-01).
CivilFromDays(z) ==
    LET zz  == z + 719468
        era == zz \div 146097
        doe == zz - era * 146097
        yoe == (doe - doe \div 1460 + doe \div 36524 - doe \div 146096) \div 365
        doy == doe - (365 * yoe + yoe \div 4 - yoe \div 100)
        mp  == (5 * doy + 2) \div 153
        d   == doy - (153 * mp + 2) \div 5 + 1
        m   == IF mp < 10 THEN mp + 3 ELSE mp - 9
        y   == yoe + era * 400 + (IF m <= 2 THEN 1 ELSE 0)
    IN  <<y, m, d>>

\* dt.datetime(y, m, d, hh, mm, ss) as a naive datetime.
Datetime(y, m, d, hh, mm, ss) ==
    DaysFromCivil(y, m, d) * SecondsPerDay
        + hh * SecondsPerHour + mm * SecondsPerMinute + ss

\* Day of the week of day number z: 0 is Monday (1970-01-01 was a Thursday).
Weekday(z) == (z + 3) % 7

\* Midnight of the first day of month number mi, months counted from year 0.
MonthStart(mi) == DaysFromCivil(mi \div 12, (mi % 12) + 1, 1) * SecondsPerDay

\* Months since year 0 of the month a naive datetime lies in.
MonthIndex(wall) ==
    LET c == CivilFromDays(wall \div SecondsPerDay) IN c[1] * 12 + (c[2] - 1)

(***************************************************************************)
(* Time zones.  The datetimes given to the calls that name Europe/Paris    *)
(* lie between 2019-12-01 and 2020-03-03, and the bucket starts of their   *)
(* grids are these, the boundaries between them, and the floors 2019-11-25 *)
(* (week), 2019-12-01 (month) and 2019-01-01 (year): all in winter time,   *)
(* when Europe/Paris is one hour ahead of UTC.  So each zone has one UTC   *)
(* offset here.  compute_completeness is called in UTC.  The download      *)
(* weather data task is given datetimes of January 2020, and its ranges    *)
(* end on floors of these moved by whole periods (midnights of November to *)
(* March, and of January 1 of other years), in winter time as well.        *)
(***************************************************************************)
TIMEZONES == {"UTC", "Europe/Paris"}

UtcOffset(tz) == IF tz = "Europe/Paris" THEN SecondsPerHour ELSE 0

Aware(wall, tz) == [wall |-> wall, tz |-> tz]

\* The instant an aware datetime denotes (what == compares on aware datetimes).
Instant(adt) == adt.wall - UtcOffset(adt.tz)

\* datetime.astimezone: the same instant on the clock of zone tz.
astimezone(adt, tz) == Aware(Instant(adt) + UtcOffset(tz), tz)

(***************************************************************************)
(* Periods.                                                                *)
(***************************************************************************)
FIXED_SIZE_PERIODS == {"second", "minute", "hour", "day"}
VARIABLE_SIZE_PERIODS == {"week", "month", "year"}
PERIODS == FIXED_SIZE_PERIODS \cup VARIABLE_SIZE_PERIODS

\* What a call has produced: nothing yet, an exception, or a value.
NoResult == [status |-> "none"]
Raise(exc) == [status |-> "raised", error |-> exc]
Return(value) == [status |-> "returned", value |-> value]

PeriodError == Raise("BEMServerCorePeriodError")

\* Length in seconds of a fixed-size unit.
UnitSeconds(unit) ==
    CASE unit = "second" -> 1
      [] unit = "minute" -> SecondsPerMinute
      [] unit = "hour"   -> SecondsPerHour
      [] unit = "day"    -> SecondsPerDay

\* The unit and multiplier a grid can be made of.
ValidPeriod(multiplier, unit) == unit \in PERIODS /\ multiplier >= 1

\* (mutant) weeks that start on Sunday, the default of the pandas "W" frequency.
FloorCalendarSunday(wall, unit) ==
    LET day == wall \div SecondsPerDay
    IN  CASE unit = "week"  -> (day - ((Weekday(day) + 1) % 7)) * SecondsPerDay
          [] unit = "month" -> MonthStart(MonthIndex(wall))
          [] unit = "year"  -> MonthStart((MonthIndex(wall) \div 12) * 12)

\* floor of a naive datetime to the canonical start of its week, month or year.
FloorCalendar(wall, unit) ==
    LET day == wall \div SecondsPerDay
    IN  CASE unit = "week"  -> (day - Weekday(day)) * SecondsPerDay
          [] unit = "month" -> MonthStart(MonthIndex(wall))
          [] unit = "year"  -> MonthStart((MonthIndex(wall) \div 12) * 12)

\* The naive datetime `multiplier` units after the naive datetime `wall`
\* (for week, month and year, `wall` is a canonical start).
AddPeriod(wall, multiplier, unit) ==
    CASE unit \in FIXED_SIZE_PERIODS -> wall + multiplier * UnitSeconds(unit)
      [] unit = "week"  -> wall + multiplier * 7 * SecondsPerDay
      [] unit = "month" -> MonthStart(MonthIndex(wall) + multiplier)
      [] unit = "year"  -> MonthStart(MonthIndex(wall) + 12 * multiplier)

\* (mutant) inclusive="both": a bucket may start at end.
RECURSIVE date_range_both(_, _, _, _)
date_range_both(first, end, multiplier, unit) ==
    IF first > end
    THEN <<>>
    ELSE <<first>> \o date_range_both(AddPeriod(first, multiplier, unit), end,
                                      multiplier, unit)

\* pd.date_range(first, end, freq=..., inclusive="left") on a wall clock:
\* first, first + 1 step, ... as long as it is before end.
RECURSIVE date_range(_, _, _, _)
date_range(first, end, multiplier, unit) ==
    IF first >= end
    THEN <<>>
    ELSE <<first>> \o date_range(AddPeriod(first, multiplier, unit), end, multiplier, unit)

(***************************************************************************)
(* gen_seconds_per_bucket(start_dt, end_dt, multiplier, unit, timezone):   *)
(* the pandas Series of the seconds of each bucket that lie in             *)
(* [start_dt, end_dt), indexed by the bucket starts as aware datetimes of  *)
(* the target zone.  Fixed-size units lay the grid from start_dt itself;   *)
(* week, month and year lay it from start_dt floored on the zone's clock.  *)
(***************************************************************************)
\* (mutant) fixed-size units floored to a multiple of the unit as well.
BucketIndexFloored(start_wall, end_wall, multiplier, unit) ==
    date_range(IF unit \in FIXED_SIZE_PERIODS
                   THEN (start_wall \div UnitSeconds(unit)) * UnitSeconds(unit)
                   ELSE FloorCalendar(start_wall, unit),
               end_wall, multiplier, unit)

\* The bucket starts, as naive datetimes of the target zone.
BucketIndex(start_wall, end_wall, multiplier, unit) ==
    date_range(IF unit \in FIXED_SIZE_PERIODS
                   THEN start_wall
                   ELSE FloorCalendar(start_wall, unit),
               end_wall, multiplier, unit)

\* (mutant) the last bucket is not cut at end.
BucketSecondsToBoundary(bucket, start_wall, end_wall, multiplier, unit) ==
    AddPeriod(bucket, multiplier, unit)
        - (IF bucket >= start_wall THEN bucket ELSE start_wall)

\* (mutant) the first bucket is not cut at start.
BucketSecondsFromBoundary(bucket, start_wall, end_wall, multiplier, unit) ==
    (IF AddPeriod(bucket, multiplier, unit) <= end_wall
         THEN AddPeriod(bucket, multiplier, unit)
         ELSE end_wall)
        - bucket

\* (mutant) the whole span of the bucket, from boundary to boundary.
BucketSecondsWhole(bucket, start_wall, end_wall, multiplier, unit) ==
    AddPeriod(bucket, multiplier, unit) - bucket

\* Seconds of the bucket starting at `bucket` that lie in [start, end).
BucketSeconds(bucket, start_wall, end_wall, multiplier, unit) ==
    (IF AddPeriod(bucket, multiplier, unit) <= end_wall
         THEN AddPeriod(bucket, multiplier, unit)
         ELSE end_wall)
        - (IF bucket >= start_wall THEN bucket ELSE start_wall)

gen_seconds_per_bucket(start_dt, end_dt, multiplier, unit, timezone) ==
    IF ~ValidPeriod(multiplier, unit)
    THEN PeriodError
    ELSE LET start_wall == astimezone(start_dt, timezone).wall
             end_wall   == astimezone(end_dt, timezone).wall
             index      == BucketIndex(start_wall, end_wall, multiplier, unit)
         IN  Return([index   |-> [i \in DOMAIN index |-> Aware(index[i], timezone)],
                     seconds |-> [i \in DOMAIN index |->
                                     BucketSeconds(index[i], start_wall, end_wall,
                                                   multiplier, unit)]])

(***************************************************************************)
(* Exact fractions.                                                        *)
(***************************************************************************)
RECURSIVE GCD(_, _)
GCD(a, b) == IF b = 0 THEN a ELSE GCD(b, a % b)

\* n / d in lowest terms, d > 0.
Frac(n, d) == LET g == GCD(n, d) IN IF n = 0 THEN <<0, 1>> ELSE <<n \div g, d \div g>>

FracAdd(p, q) ==
    LET g == GCD(p[2], q[2])
    IN  Frac(p[1] * (q[2] \div g) + q[1] * (p[2] \div g), (p[2] \div g) * q[2])

FracLeq(p, q) == p[1] * q[2] <= q[1] * p[2]

RECURSIVE SumSeq(_)
SumSeq(s) == IF s = <<>> THEN 0 ELSE Head(s) + SumSeq(Tail(s))

RECURSIVE FracSum(_)
FracSum(s) == IF s = <<>> THEN <<0, 1>> ELSE FracAdd(Head(s), FracSum(Tail(s)))

\* float(value) of a property value, a string of decimal digits.
RECURSIVE ParseDigits(_)
ParseDigits(digits) ==
    IF digits = <<>>
    THEN 0
    ELSE 10 * ParseDigits(SubSeq(digits, 1, Len(digits) - 1)) + digits[Len(digits)]

float(value) == Frac(ParseDigits(value), 1)

(***************************************************************************)
(* compute_completeness(start_dt, end_dt, timeseries, data_state,          *)
(*                      multiplier, unit, timezone="UTC")                  *)
(* The store holds the samples of data state "Raw", the one the tests use. *)
(***************************************************************************)
\* The timeseries of the store: id and name.
TIMESERIES == << [id |-> 1, name |-> "Timeseries 0"], [id |-> 2, name |-> "Timeseries 1"] >>

TS_IDS == {TIMESERIES[i].id : i \in DOMAIN TIMESERIES}

TsName(id) == TIMESERIES[CHOOSE i \in DOMAIN TIMESERIES : TIMESERIES[i].id = id].name

\* (mutant) the grouped count as the store gives it, without the buckets
\* that hold no sample.
get_timeseries_buckets_data_sparse(data, start_dt, end_dt, index, multiplier, unit) ==
    SelectSeq(
        [i \in DOMAIN index |->
            Cardinality({t \in data :
                /\ Instant(start_dt) <= t
                /\ t < Instant(end_dt)
                /\ Instant(index[i]) <= t
                /\ t < Instant(Aware(AddPeriod(index[i].wall, multiplier, unit),
                                     index[i].tz))})],
        LAMBDA n : n > 0)

\* (mutant) buckets closed on the right: a sample stamped at the end of a
\* bucket is counted in it.
get_timeseries_buckets_data_closed(data, start_dt, end_dt, index, multiplier, unit) ==
    [i \in DOMAIN index |->
        Cardinality({t \in data :
            /\ Instant(start_dt) <= t
            /\ t <= Instant(end_dt)
            /\ Instant(index[i]) <= t
            /\ t <= Instant(Aware(AddPeriod(index[i].wall, multiplier, unit),
                                  index[i].tz))})]

\* (mutant) the samples of the whole bucket are counted, also those
\* stamped before start_dt or at or after end_dt.
get_timeseries_buckets_data_whole_bucket(data, start_dt, end_dt, index, multiplier, unit) ==
    [i \in DOMAIN index |->
        Cardinality({t \in data :
            /\ Instant(index[i]) <= t
            /\ t < Instant(Aware(AddPeriod(index[i].wall, multiplier, unit),
                                 index[i].tz))})]

\* Count query of the store: for each bucket, the number of samples of the
\* series stamped in [start_dt, end_dt) and in the bucket.
get_timeseries_buckets_data(data, start_dt, end_dt, index, multiplier, unit) ==
    [i \in DOMAIN index |->
        Cardinality({t \in data :
            /\ Instant(start_dt) <= t
            /\ t < Instant(end_dt)
            /\ Instant(index[i]) <= t
            /\ t < Instant(Aware(AddPeriod(index[i].wall, multiplier, unit),
                                 index[i].tz))})]

\* The bucket with the most samples per second of bucket.
DensestBucket(counts, seconds) ==
    CHOOSE i \in DOMAIN counts :
        \A j \in DOMAIN counts : counts[j] * seconds[i] <= counts[i] * seconds[j]

\* (mutant) the interval that makes the bucket with the most samples complete,
\* whatever the durations of the buckets.
guess_interval_max_count(counts, seconds) ==
    LET i == CHOOSE k \in DOMAIN counts : \A j \in DOMAIN counts : counts[j] <= counts[k]
    IN  Frac(seconds[i], counts[i])

\* (mutant) the interval that makes the whole range complete: all the seconds
\* of the buckets over all the samples.
guess_interval_whole_range(counts, seconds) == Frac(SumSeq(seconds), SumSeq(counts))

\* The interval guessed from the counts: the one that makes the densest
\* bucket exactly complete.
guess_interval(counts, seconds) ==
    LET i == DensestBucket(counts, seconds) IN Frac(seconds[i], counts[i])

\* (mutant) one sample is enough.
EnoughSamplesOne(total_count) == total_count >= 1

\* Whether the samples in range are enough to guess an interval from.
EnoughSamples(total_count) == total_count >= 2

\* (mutant) the guessed interval wins over the declared one.
series_interval_guess_first(declared, counts, seconds) ==
    IF SumSeq(counts) >= 2
    THEN guess_interval(counts, seconds)
    ELSE IF declared # None THEN float(declared) ELSE None

\* The interval of a series: the declared one, else the guessed one, else None.
series_interval(declared, counts, seconds) ==
    IF declared # None
    THEN float(declared)
    ELSE IF SumSeq(counts) = 0 \/ ~EnoughSamples(SumSeq(counts))
         THEN None
         ELSE guess_interval(counts, seconds)

\* (mutant) the quotient truncated to an integer.
expected_count_truncated(seconds, interval) ==
    IF interval = None
    THEN None
    ELSE Frac((seconds * interval[2]) \div interval[1], 1)

\* Expected count of a bucket: its seconds over the interval, not truncated.
expected_count(seconds, interval) ==
    IF interval = None THEN None ELSE Frac(seconds * interval[2], interval[1])

\* (mutant) a bucket without an expected count is given the ratio 0.
ratio_zero_for_undefined(count, expected) ==
    IF expected = None \/ expected[1] = 0
    THEN <<0, 1>>
    ELSE Frac(count * expected[2], expected[1])

\* (mutant) expected over observed.
ratio_inverted(count, expected) ==
    IF expected = None \/ count = 0
    THEN None
    ELSE Frac(expected[1], expected[2] * count)

\* Ratio of a bucket: observed over expected, None without an expected count.
ratio(count, expected) ==
    IF expected = None \/ expected[1] = 0
    THEN None
    ELSE Frac(count * expected[2], expected[1])

\* (mutant) the buckets without a value are left out of the mean, and so
\* are the buckets whose value is 0.
mean_skip_zero(values) ==
    LET defined == SelectSeq(values, LAMBDA v : v # None /\ v[1] # 0)
    IN  IF defined = <<>>
        THEN None
        ELSE LET total == FracSum(defined)
             IN  Frac(total[1], total[2] * Len(defined))

\* Mean of the values of a sequence that are not None; None when there is none.
mean_skipna(values) ==
    LET defined == SelectSeq(values, LAMBDA v : v # None)
    IN  IF defined = <<>>
        THEN None
        ELSE LET total == FracSum(defined)
             IN  Frac(total[1], total[2] * Len(defined))

\* The report of one series.
SeriesReport(ts, data, declared, start_dt, end_dt, grid, multiplier, unit) ==
    LET counts   == get_timeseries_buckets_data(data, start_dt, end_dt, grid.index,
                                                multiplier, unit)
        interval == series_interval(declared, counts, grid.seconds)
        expected == [i \in DOMAIN counts |-> expected_count(grid.seconds[i], interval)]
        ratios   == [i \in DOMAIN counts |-> ratio(counts[i], expected[i])]
    IN  [name               |-> ts.name,
         count              |-> counts,
         ratio              |-> ratios,
         total_count        |-> SumSeq(counts),
         avg_count          |-> Frac(SumSeq(counts), Len(counts)),
         avg_ratio          |-> mean_skipna(ratios),
         interval           |-> interval,
         undefined_interval |-> (declared = None),
         expected_count     |-> expected]

\* (mutant) a period error is swallowed and an empty report returned.
on_period_error_swallow(raised) == Return([timestamps |-> <<>>, timeseries |-> <<>>])

\* What compute_completeness does with the period error of the grid
\* generator: nothing, the error goes on to the caller.
on_period_error(raised) == raised

compute_completeness(data, intervals, start_dt, end_dt, timeseries, multiplier, unit, timezone) ==
    LET grid == gen_seconds_per_bucket(start_dt, end_dt, multiplier, unit, timezone)
    IN  IF grid.status = "raised"
        THEN on_period_error(grid)
        ELSE Return(
               [timestamps |-> grid.value.index,
                timeseries |->
                  [id \in {timeseries[k].id : k \in DOMAIN timeseries} |->
                     SeriesReport(
                       timeseries[CHOOSE k \in DOMAIN timeseries : timeseries[k].id = id],
                       data[id], intervals[id], start_dt, end_dt,
                       grid.value, multiplier, unit)]])

(***************************************************************************)
(* compute_completeness(start_dt, end_dt, timeseries, data_state, period): *)
(* the call convention of tests/analysis/test_completeness.py.  The period *)
(* is one string such as "1 month", the series are keyed by name and the   *)
(* labels are spaced.  A string is a sequence of characters; the unit word *)
(* at its end is kept as one item.                                         *)
(***************************************************************************)
DIGITS == <<"0", "1", "2", "3", "4", "5", "6", "7", "8", "9">>

DigitValue(char) == (CHOOSE k \in DOMAIN DIGITS : DIGITS[k] = char) - 1

\* int(text) of a string of decimal digits, "-" in front for a negative number.
RECURSIVE int(_)
int(text) ==
    IF text = <<>>
    THEN 0
    ELSE IF Head(text) = "-"
         THEN 0 - int(Tail(text))
         ELSE 10 * int(SubSeq(text, 1, Len(text) - 1)) + DigitValue(text[Len(text)])

\* (mutant) the number in front of the unit is dropped: one unit per bucket.
parse_period_unit_only(period) ==
    LET space == CHOOSE k \in DOMAIN period : period[k] = " "
    IN  <<IF int(SubSeq(period, 1, space - 1)) >= 1 THEN 1 ELSE 0, period[space + 1]>>

\* "1 month" -> <<1, "month">>: the text before the space is the multiplier,
\* the word after it the unit.
parse_period(period) ==
    LET space == CHOOSE k \in DOMAIN period : period[k] = " "
    IN  <<int(SubSeq(period, 1, space - 1)), period[space + 1]>>

\* The report of one series under the spaced labels; the name is the key.
SpacedLabels(report) ==
    [label \in {"count", "ratio", "total count", "avg count", "avg ratio",
                "interval", "undefined interval", "expected count"} |->
        CASE label = "count"              -> report.count
          [] label = "ratio"              -> report.ratio
          [] label = "total count"        -> report.total_count
          [] label = "avg count"          -> report.avg_count
          [] label = "avg ratio"          -> report.avg_ratio
          [] label = "interval"           -> report.interval
          [] label = "undefined interval" -> report.undefined_interval
          [] label = "expected count"     -> report.expected_count]

\* What the call gives back: the period error, or the report keyed by the
\* names of the series, under the spaced labels.
NameKeyed(result, timeseries) ==
    IF result.status = "raised"
    THEN result
    ELSE Return(
           [timestamps |-> result.value.timestamps,
            timeseries |->
              [name \in {timeseries[k].name : k \in DOMAIN timeseries} |->
                 SpacedLabels(result.value.timeseries[
                    timeseries[CHOOSE k \in DOMAIN timeseries :
                                  timeseries[k].name = name].id])]])

\* compute_completeness called with a period string and Timeseries objects.
compute_completeness_period(data, intervals, start_dt, end_dt, timeseries, period, timezone) ==
    NameKeyed(compute_completeness(data, intervals, start_dt, end_dt, timeseries,
                                   parse_period(period)[1], parse_period(period)[2],
                                   timezone),
              timeseries)

(***************************************************************************)
(* Inputs.                                                                 *)
(***************************************************************************)
MaxBuckets == 10
MaxMultiplier == 3
MaxComputeMultiplier == 2

Utc(y, m, d, hh, mm, ss) == Aware(Datetime(y, m, d, hh, mm, ss), "UTC")

\* The datetimes of the tests, and a few around them.
GEN_DATETIMES ==
    { Utc(2019, 12, 1, 0, 0, 0),  Utc(2020, 1, 1, 0, 0, 0),  Utc(2020, 1, 1, 0, 0, 3),
      Utc(2020, 1, 1, 0, 3, 0),   Utc(2020, 1, 1, 0, 12, 43), Utc(2020, 1, 1, 0, 30, 0),
      Utc(2020, 1, 1, 3, 0, 0),   Utc(2020, 1, 1, 3, 12, 43), Utc(2020, 1, 2, 0, 0, 0),
      Utc(2020, 1, 22, 0, 0, 0),  Utc(2020, 1, 30, 0, 0, 0),  Utc(2020, 2, 1, 0, 0, 0),
      Utc(2020, 3, 1, 0, 0, 0),   Utc(2020, 3, 3, 0, 0, 0) }

UNITS == PERIODS \cup {"fortnight"}

\* Nominal length of a unit, to bound the number of buckets of a call.
NominalSeconds(unit) ==
    CASE unit \in FIXED_SIZE_PERIODS -> UnitSeconds(unit)
      [] unit = "week"  -> 7 * SecondsPerDay
      [] unit = "month" -> 28 * SecondsPerDay
      [] unit = "year"  -> 365 * SecondsPerDay

\* The call makes a grid of about MaxBuckets buckets at most, or none at all.
Feasible(start_dt, end_dt, multiplier, unit) ==
    IF ValidPeriod(multiplier, unit)
    THEN (Instant(end_dt) - Instant(start_dt)) \div (multiplier * NominalSeconds(unit))
             < MaxBuckets
    ELSE TRUE

GEN_CALLS ==
    { [fn |-> "gen_seconds_per_bucket", start_dt |-> s, end_dt |-> e,
       multiplier |-> k, unit |-> u, timezone |-> tz] :
        s \in GEN_DATETIMES, e \in GEN_DATETIMES, k \in 0..MaxMultiplier,
        u \in UNITS, tz \in TIMEZONES }

NoCall == [fn |-> "none"]

\* pd.date_range(start, end, inclusive="left", freq=f"{freq}S"), as instants.
SampleRange(start_dt, end_dt, freq) ==
    { Instant(start_dt) + k * freq :
        k \in 0..((Instant(end_dt) - Instant(start_dt) - 1) \div freq) }

\* The timestamps given to create_timeseries_data.
TIMESTAMPS ==
    { \* 10 min, full
      SampleRange(Utc(2020, 1, 1, 0, 0, 0), Utc(2020, 1, 1, 3, 0, 0), 600),
      \* 10 min, gaps
      SampleRange(Utc(2020, 1, 1, 0, 0, 0), Utc(2020, 1, 1, 0, 50, 0), 600)
          \cup SampleRange(Utc(2020, 1, 1, 2, 0, 0), Utc(2020, 1, 1, 3, 0, 0), 600),
      \* 430 s
      SampleRange(Utc(2020, 1, 1, 0, 0, 0), Utc(2020, 1, 1, 3, 0, 0), 430),
      \* variable interval
      SampleRange(Utc(2020, 1, 1, 0, 0, 0), Utc(2020, 1, 1, 0, 50, 0), 600)
          \cup SampleRange(Utc(2020, 1, 1, 2, 0, 0), Utc(2020, 1, 1, 3, 0, 0), 430),
      \* a single sample
      SampleRange(Utc(2020, 1, 1, 0, 40, 0), Utc(2020, 1, 1, 0, 50, 0), 600),
      \* days apart, variable interval
      SampleRange(Utc(2020, 1, 1, 0, 0, 0), Utc(2020, 1, 22, 0, 0, 0), 2 * SecondsPerDay)
          \cup SampleRange(Utc(2020, 2, 1, 0, 0, 0), Utc(2020, 3, 1, 0, 0, 0),
                           SecondsPerDay) }

\* The values given to the "Interval" property, as strings of digits.
INTERVAL_VALUES == { <<6, 0, 0>>, <<1, 2, 0, 0>> }

COMPUTE_RANGES ==
    { <<Utc(2020, 1, 1, 0, 0, 0),   Utc(2020, 1, 1, 3, 0, 0)>>,
      <<Utc(2020, 1, 1, 0, 30, 0),  Utc(2020, 1, 1, 3, 0, 0)>>,
      <<Utc(2020, 1, 1, 0, 12, 43), Utc(2020, 1, 1, 3, 12, 43)>>,
      <<Utc(2020, 1, 1, 0, 0, 0),   Utc(2020, 1, 1, 0, 3, 0)>>,
      <<Utc(2020, 1, 1, 0, 0, 0),   Utc(2020, 1, 1, 0, 0, 3)>>,
      <<Utc(2020, 1, 1, 0, 0, 0),   Utc(2020, 1, 2, 0, 0, 0)>>,
      <<Utc(2020, 1, 1, 0, 0, 0),   Utc(2020, 1, 22, 0, 0, 0)>>,
      <<Utc(2020, 1, 30, 0, 0, 0),  Utc(2020, 3, 3, 0, 0, 0)>>,
      <<Utc(2019, 12, 1, 0, 0, 0),  Utc(2020, 2, 1, 0, 0, 0)>>,
      <<Utc(2020, 1, 1, 0, 0, 0),   Utc(2020, 3, 1, 0, 0, 0)>> }

COMPUTE_PERIODS ==
    { <<k, u>> : k \in 1..MaxComputeMultiplier, u \in PERIODS }
        \cup { <<0, "hour">>, <<-1, "day">>, <<1, "fortnight">> }

\* The lists of timeseries asked for: all of them, or the last one alone.
TIMESERIES_LISTS == { TIMESERIES, <<TIMESERIES[Len(TIMESERIES)]>> }

COMPUTE_CALLS ==
    { [fn |-> "compute_completeness", start_dt |-> r[1], end_dt |-> r[2],
       timeseries |-> l, multiplier |-> p[1], unit |-> p[2],
       timezone |-> "UTC"] :
        r \in COMPUTE_RANGES, l \in TIMESERIES_LISTS, p \in COMPUTE_PERIODS }

\* str(number): the decimal digits of a number that is not negative.
RECURSIVE str(_)
str(number) ==
    IF number < 10
    THEN <<DIGITS[number + 1]>>
    ELSE str(number \div 10) \o <<DIGITS[(number % 10) + 1]>>

\* f"{multiplier} {unit}"
PeriodString(multiplier, unit) == str(multiplier) \o <<" ", unit>>

\* The same periods as strings: "1 month", "2 hour", ..., "0 hour", "1 fortnight".
PERIOD_STRINGS == { PeriodString(p[1], p[2]) : p \in {q \in COMPUTE_PERIODS : q[1] >= 0} }

PERIOD_CALLS ==
    { [fn |-> "compute_completeness_period", start_dt |-> r[1], end_dt |-> r[2],
       timeseries |-> l, period |-> p, timezone |-> "UTC"] :
        r \in COMPUTE_RANGES, l \in TIMESERIES_LISTS, p \in PERIOD_STRINGS }

(***************************************************************************)
(* The state machine.                                                      *)
(***************************************************************************)
\* The invocations that can run side by side, none of them started.
MaxInvocations == 2
INVOCATIONS == 1..MaxInvocations
IdleInvocation == [pc |-> "idle"]
NoInvocations == invocations = [k \in INVOCATIONS |-> IdleInvocation]

\* The sites; the download weather data task has not run.
SITES == {1, 2, 3}
NoTask == [pc |-> "idle"]
NoWeatherTask ==
    /\ st_dl_weather_data_by_site = [site \in SITES |-> TRUE]
    /\ task = NoTask
    /\ wdp_calls = <<>>
    /\ logger = <<>>
    /\ commits = 0

Init ==
    /\ ts_data = [id \in TS_IDS |-> {}]
    /\ ts_interval = [id \in TS_IDS |-> None]
    /\ call = NoCall
    /\ ret = NoResult
    /\ NoInvocations
    /\ NoWeatherTask

\* TimeseriesPropertyData.new(timeseries_id=id, property_id=interval_prop.id, value=value)
NewTimeseriesPropertyData(id, value) ==
    /\ call = NoCall
    /\ ts_interval[id] = None
    /\ ts_interval' = [ts_interval EXCEPT ![id] = value]
    /\ UNCHANGED <<ts_data, call, ret>>
    /\ UNCHANGED <<invocations, weather_vars>>

\* create_timeseries_data(ts, ds_1, timestamps, values)
create_timeseries_data(id, timestamps) ==
    /\ call = NoCall
    /\ ts_data[id] = {}
    /\ ts_data' = [ts_data EXCEPT ![id] = timestamps]
    /\ UNCHANGED <<ts_interval, call, ret>>
    /\ UNCHANGED <<invocations, weather_vars>>

\* ret = compute_completeness(start_dt, end_dt, ts_l, ds_1, multiplier, unit)
ComputeCompleteness(c) ==
    /\ call = NoCall
    /\ Instant(c.start_dt) < Instant(c.end_dt)
    /\ Feasible(c.start_dt, c.end_dt, c.multiplier, c.unit)
    /\ call' = c
    /\ ret' = compute_completeness(ts_data, ts_interval, c.start_dt, c.end_dt,
                                   c.timeseries, c.multiplier, c.unit, c.timezone)
    /\ UNCHANGED <<ts_data, ts_interval>>
    /\ UNCHANGED <<invocations, weather_vars>>

\* ret = compute_completeness(start_dt, end_dt, ts_l, ds_1, "1 month")
ComputeCompletenessPeriod(c) ==
    /\ call = NoCall
    /\ Instant(c.start_dt) < Instant(c.end_dt)
    /\ Feasible(c.start_dt, c.end_dt, parse_period(c.period)[1], parse_period(c.period)[2])
    /\ call' = c
    /\ ret' = compute_completeness_period(ts_data, ts_interval, c.start_dt, c.end_dt,
                                          c.timeseries, c.period, c.timezone)
    /\ UNCHANGED <<ts_data, ts_interval>>
    /\ UNCHANGED <<invocations, weather_vars>>

\* The caller is done with the result; the next call can be made.
NextCall ==
    /\ call.fn \in {"compute_completeness", "compute_completeness_period"}
    /\ call' = NoCall
    /\ ret' = NoResult
    /\ UNCHANGED <<ts_data, ts_interval>>
    /\ UNCHANGED <<invocations, weather_vars>>

Next ==
    \/ \E id \in TS_IDS, value \in INTERVAL_VALUES : NewTimeseriesPropertyData(id, value)
    \/ \E id \in TS_IDS, timestamps \in TIMESTAMPS : create_timeseries_data(id, timestamps)
    \/ \E c \in COMPUTE_CALLS : ComputeCompleteness(c)
    \/ NextCall

Spec == Init /\ [][Next]_vars

\* The same store, asked under the period-string convention.
NextPeriod ==
    \/ \E id \in TS_IDS, value \in INTERVAL_VALUES : NewTimeseriesPropertyData(id, value)
    \/ \E id \in TS_IDS, timestamps \in TIMESTAMPS : create_timeseries_data(id, timestamps)
    \/ \E c \in PERIOD_CALLS : ComputeCompletenessPeriod(c)
    \/ NextCall

SpecPeriod == Init /\ [][NextPeriod]_vars

(***************************************************************************)
(* Regularly sampled series: one sample every 430 s or 600 s for three     *)
(* hours, or one a day for three months, with a declared interval.         *)
(***************************************************************************)
REGULAR_TIMESTAMPS ==
    { SampleRange(Utc(2020, 1, 1, 0, 0, 0), Utc(2020, 1, 1, 3, 0, 0), 430),
      SampleRange(Utc(2020, 1, 1, 0, 0, 0), Utc(2020, 1, 1, 3, 0, 0), 600),
      SampleRange(Utc(2019, 12, 1, 0, 0, 0), Utc(2020, 3, 3, 0, 0, 0), SecondsPerDay) }

\* "600", "1200" and "172800" (two days).
REGULAR_INTERVAL_VALUES == { <<6, 0, 0>>, <<1, 2, 0, 0>>, <<1, 7, 2, 8, 0, 0>> }

REGULAR_CALLS ==
    { [fn |-> "compute_completeness", start_dt |-> r[1], end_dt |-> r[2],
       timeseries |-> TIMESERIES, multiplier |-> p[1], unit |-> p[2],
       timezone |-> "UTC"] :
        r \in COMPUTE_RANGES, p \in COMPUTE_PERIODS }

NextRegular ==
    \/ \E id \in TS_IDS, value \in REGULAR_INTERVAL_VALUES :
          NewTimeseriesPropertyData(id, value)
    \/ \E id \in TS_IDS, timestamps \in REGULAR_TIMESTAMPS :
          create_timeseries_data(id, timestamps)
    \/ \E c \in REGULAR_CALLS : ComputeCompleteness(c)
    \/ NextCall

SpecRegular == Init /\ [][NextRegular]_vars

(***************************************************************************)
(* compute_completeness calls running side by side on one store.  A call   *)
(* builds its grid, then asks the store for one series after the other;    *)
(* between two of its requests the other calls may run.                    *)
(***************************************************************************)
\* The stores the calls run on: series 1 declared at 600 s or not, with
\* samples every 10 min, with or without a gap; series 2 without a declared
\* interval, with samples at a varying interval, a single sample, or none.
CONC_STORES ==
    { [data |-> <<d1, d2>>, intervals |-> <<i1, None>>] :
        d1 \in { SampleRange(Utc(2020, 1, 1, 0, 0, 0), Utc(2020, 1, 1, 3, 0, 0), 600),
                 SampleRange(Utc(2020, 1, 1, 0, 0, 0), Utc(2020, 1, 1, 0, 50, 0), 600)
                   \cup SampleRange(Utc(2020, 1, 1, 2, 0, 0), Utc(2020, 1, 1, 3, 0, 0), 600) },
        d2 \in { SampleRange(Utc(2020, 1, 1, 0, 0, 0), Utc(2020, 1, 1, 0, 50, 0), 600)
                   \cup SampleRange(Utc(2020, 1, 1, 2, 0, 0), Utc(2020, 1, 1, 3, 0, 0), 430),
                 SampleRange(Utc(2020, 1, 1, 0, 40, 0), Utc(2020, 1, 1, 0, 50, 0), 600),
                 {} },
        i1 \in { None, <<6, 0, 0>> } }

CONC_CALLS ==
    { [fn |-> "compute_completeness", start_dt |-> r[1], end_dt |-> r[2],
       timeseries |-> TIMESERIES, multiplier |-> p[1], unit |-> p[2],
       timezone |-> "UTC"] :
        r \in { <<Utc(2020, 1, 1, 0, 0, 0),  Utc(2020, 1, 1, 3, 0, 0)>>,
                <<Utc(2020, 1, 1, 0, 30, 0), Utc(2020, 1, 1, 3, 0, 0)>> },
        p \in { <<1, "hour">>, <<1, "day">>, <<0, "hour">> } }

InitConc ==
    /\ \E store \in CONC_STORES :
          /\ ts_data = store.data
          /\ ts_interval = store.intervals
    /\ call = NoCall
    /\ ret = NoResult
    /\ NoInvocations
    /\ NoWeatherTask

\* (mutant) a series found without a declared interval is given one of
\* 600 s in the store.
store_after_fetch_default(intervals, id) ==
    IF intervals[id] = None THEN [intervals EXCEPT ![id] = <<6, 0, 0>>] ELSE intervals

\* The declared intervals of the store after a call has asked for those of
\* a series: as before, the engine writes nothing.
store_after_fetch(intervals, id) == intervals

\* The call starts: it builds the grid, or fails on the period.
BeginInvocation(k, c) ==
    /\ invocations[k].pc = "idle"
    /\ LET grid == gen_seconds_per_bucket(c.start_dt, c.end_dt, c.multiplier, c.unit,
                                          c.timezone)
       IN  invocations' =
             [invocations EXCEPT ![k] =
                IF grid.status = "raised"
                THEN [pc |-> "done", call |-> c, ret |-> on_period_error(grid)]
                ELSE [pc |-> "fetch", call |-> c, grid |-> grid.value, reports |-> <<>>]]
    /\ UNCHANGED <<completeness_vars, weather_vars>>

\* The call asks the store for the counts and the declared interval of its
\* next series and works out that series' report; after the last series it
\* returns the whole report.
FetchSeries(k) ==
    /\ invocations[k].pc = "fetch"
    /\ LET inv     == invocations[k]
           c       == inv.call
           ts      == c.timeseries[Len(inv.reports) + 1]
           report  == SeriesReport(ts, ts_data[ts.id], ts_interval[ts.id], c.start_dt,
                                   c.end_dt, inv.grid, c.multiplier, c.unit)
           reports == Append(inv.reports, report)
       IN  /\ invocations' =
                [invocations EXCEPT ![k] =
                   IF Len(reports) < Len(c.timeseries)
                   THEN [inv EXCEPT !.reports = reports]
                   ELSE [pc |-> "done", call |-> c,
                         ret |-> Return(
                            [timestamps |-> inv.grid.index,
                             timeseries |->
                               [id \in {c.timeseries[n].id : n \in DOMAIN c.timeseries} |->
                                  reports[CHOOSE n \in DOMAIN c.timeseries :
                                             c.timeseries[n].id = id]]])]]
           /\ ts_interval' = store_after_fetch(ts_interval, ts.id)
    /\ UNCHANGED <<ts_data, call, ret, weather_vars>>

\* The caller has the result; invocation k can be used for another call.
FinishInvocation(k) ==
    /\ invocations[k].pc = "done"
    /\ invocations' = [invocations EXCEPT ![k] = IdleInvocation]
    /\ UNCHANGED <<completeness_vars, weather_vars>>

NextConc ==
    \/ \E k \in INVOCATIONS, c \in CONC_CALLS : BeginInvocation(k, c)
    \/ \E k \in INVOCATIONS : FetchSeries(k)
    \/ \E k \in INVOCATIONS : FinishInvocation(k)

SpecConc == InitConc /\ [][NextConc]_vars

(***************************************************************************)
(* The download weather data scheduled task                                *)
(* (bemserver_core/scheduled_tasks/download_weather_data.py).              *)
(***************************************************************************)
\* time_utils.floor(datetime, period, period_multiplier): the datetime
\* rounded down, on its own clock, to a multiple of the period.
floor(datetime, period, period_multiplier) ==
    IF ~ValidPeriod(period_multiplier, period)
    THEN PeriodError
    ELSE Return(Aware(
           IF period \in FIXED_SIZE_PERIODS
           THEN (datetime.wall \div (period_multiplier * UnitSeconds(period)))
                    * (period_multiplier * UnitSeconds(period))
           ELSE FloorCalendar(datetime.wall, period),
           datetime.tz))

\* time_utils.make_date_offset(period, period_multiplier)
make_date_offset(period, period_multiplier) ==
    IF ~ValidPeriod(period_multiplier, period)
    THEN PeriodError
    ELSE Return([multiplier |-> period_multiplier, unit |-> period])

\* datetime + n * offset, n of either sign.
AddOffsets(datetime, n, offset) ==
    Aware(AddPeriod(datetime.wall, n * offset.multiplier, offset.unit), datetime.tz)

\* (mutant) the except clause without its raise: the error is logged and the
\* range is laid around the datetime as it is.
make_date_range_swallowed(datetime, period, period_multiplier, periods_before, periods_after) ==
    IF ~ValidPeriod(period_multiplier, period)
    THEN [result |-> Return(<<datetime, datetime>>),
          logged |-> <<[level |-> "critical", msg |-> PeriodError.error]>>]
    ELSE [result |-> Return(<<AddOffsets(floor(datetime, period, period_multiplier).value,
                                         0 - periods_before,
                                         make_date_offset(period, period_multiplier).value),
                              AddOffsets(floor(datetime, period, period_multiplier).value,
                                         periods_after,
                                         make_date_offset(period, period_multiplier).value)>>),
          logged |-> <<>>]

\* _make_date_range: what it returns or raises, and what it logs.
make_date_range(datetime, period, period_multiplier, periods_before, periods_after) ==
    LET round_dt      == floor(datetime, period, period_multiplier)
        period_offset == make_date_offset(period, period_multiplier)
    IN  IF round_dt.status = "raised"
        THEN [result |-> round_dt,
              logged |-> <<[level |-> "critical", msg |-> round_dt.error]>>]
        ELSE IF period_offset.status = "raised"
        THEN [result |-> period_offset,
              logged |-> <<[level |-> "critical", msg |-> period_offset.error]>>]
        ELSE [result |-> Return(<<AddOffsets(round_dt.value, 0 - periods_before,
                                             period_offset.value),
                                  AddOffsets(round_dt.value, periods_after,
                                             period_offset.value)>>),
              logged |-> <<>>]

\* The rows of a query on the table, as the sequence of their site ids.
RECURSIVE Rows(_)
Rows(sites) ==
    IF sites = {}
    THEN <<>>
    ELSE LET site == CHOOSE x \in sites : \A y \in sites : x <= y
         IN  <<site>> \o Rows(sites \ {site})

\* (mutant) the query without its filter: every row, enabled or not.
get_all_rows(table) == Rows(DOMAIN table)

\* ST_DownloadWeatherDataBySite.get(is_enabled=True)
get_is_enabled(table) == Rows({site \in DOMAIN table : table[site]})

MaxPeriods == 2

\* Arguments of the task: datetimes, periods, periods before and after.
WEATHER_DATETIMES ==
    { Utc(2020, 1, 1, 0, 12, 43),
      Aware(Datetime(2020, 1, 22, 10, 3, 0), "Europe/Paris"),
      Utc(2020, 1, 30, 0, 0, 0) }

WEATHER_PERIODS ==
    { <<3, "second">>, <<1, "minute">>, <<1, "hour">>, <<2, "hour">>, <<1, "day">>,
      <<1, "week">>, <<1, "month">>, <<1, "year">>, <<0, "hour">>, <<1, "fortnight">> }

WEATHER_ARGS ==
    { [datetime |-> d, period |-> p[2], period_multiplier |-> p[1],
       periods_before |-> b, periods_after |-> a] :
        d \in WEATHER_DATETIMES, p \in WEATHER_PERIODS,
        b \in 0..MaxPeriods, a \in 0..MaxPeriods }

ENTRY_POINTS == {"download_weather_data", "dowload_weather_data_scheduled_task"}

InitWeather ==
    /\ ts_data = [id \in TS_IDS |-> {}]
    /\ ts_interval = [id \in TS_IDS |-> None]
    /\ call = NoCall
    /\ ret = NoResult
    /\ NoInvocations
    /\ NoWeatherTask

\* A row of the table is updated: is_enabled set or cleared.
SetIsEnabled(site, is_enabled) ==
    /\ task.pc = "idle"
    /\ st_dl_weather_data_by_site[site] # is_enabled
    /\ st_dl_weather_data_by_site' =
          [st_dl_weather_data_by_site EXCEPT ![site] = is_enabled]
    /\ UNCHANGED <<completeness_vars, invocations, task, wdp_calls, logger, commits>>

\* download_weather_data is called, by the scheduled task (with
\* dt.datetime.now(tz=ZoneInfo(timezone)) as datetime) or directly.
StartTask(entry, args) ==
    /\ task.pc = "idle"
    /\ task' = [pc |-> "make_date_range", entry |-> entry, args |-> args]
    /\ logger' = logger
                   \o (IF entry = "dowload_weather_data_scheduled_task"
                       THEN <<[level |-> "info", msg |-> "Start"]>>
                       ELSE <<>>)
                   \o <<[level |-> "debug", msg |-> "datetime"]>>
    /\ UNCHANGED <<completeness_vars, invocations, st_dl_weather_data_by_site,
                   wdp_calls, commits>>

\* start_dt, end_dt = _make_date_range(...), then the query of the loop.
MakeDateRange ==
    /\ task.pc = "make_date_range"
    /\ LET made == make_date_range(task.args.datetime, task.args.period,
                                   task.args.period_multiplier,
                                   task.args.periods_before, task.args.periods_after)
       IN  /\ logger' = logger \o made.logged
           /\ task' =
                IF made.result.status = "raised"
                THEN [pc |-> "raised", entry |-> task.entry, args |-> task.args,
                      error |-> made.result.error]
                ELSE [pc |-> "loop", entry |-> task.entry, args |-> task.args,
                      start_dt |-> made.result.value[1],
                      end_dt |-> made.result.value[2],
                      rows |-> get_is_enabled(st_dl_weather_data_by_site)]
    /\ UNCHANGED <<completeness_vars, invocations, st_dl_weather_data_by_site,
                   wdp_calls, commits>>

\* One turn of the loop: wdp.get_weather_data_for_site(site, start_dt, end_dt),
\* which returns or raises.
GetWeatherDataForSite(outcome) ==
    /\ task.pc = "loop"
    /\ task.rows # <<>>
    /\ logger' = Append(logger, [level |-> "debug", msg |-> "Getting weather data"])
    /\ wdp_calls' = Append(wdp_calls, [site |-> Head(task.rows),
                                       start_dt |-> task.start_dt,
                                       end_dt |-> task.end_dt,
                                       outcome |-> outcome])
    /\ task' = IF outcome = "raised"
               THEN [pc |-> "raised", entry |-> task.entry, args |-> task.args,
                     error |-> "WeatherDataProviderError"]
               ELSE [task EXCEPT !.rows = Tail(task.rows)]
    /\ UNCHANGED <<completeness_vars, invocations, st_dl_weather_data_by_site, commits>>

\* The loop is over: download_weather_data returns.
ReturnFromDownload ==
    /\ task.pc = "loop"
    /\ task.rows = <<>>
    /\ task' = [task EXCEPT !.pc = IF task.entry = "dowload_weather_data_scheduled_task"
                                   THEN "commit"
                                   ELSE "done"]
    /\ UNCHANGED <<completeness_vars, invocations, st_dl_weather_data_by_site,
                   wdp_calls, logger, commits>>

\* logger.debug("Committing"); db.session.commit()
Commit ==
    /\ task.pc = "commit"
    /\ logger' = Append(logger, [level |-> "debug", msg |-> "Committing"])
    /\ commits' = commits + 1
    /\ task' = [task EXCEPT !.pc = "done"]
    /\ UNCHANGED <<completeness_vars, invocations, st_dl_weather_data_by_site, wdp_calls>>

NextWeather ==
    \/ \E site \in SITES, is_enabled \in BOOLEAN : SetIsEnabled(site, is_enabled)
    \/ \E entry \in ENTRY_POINTS, args \in WEATHER_ARGS : StartTask(entry, args)
    \/ MakeDateRange
    \/ \E outcome \in {"returned", "raised"} : GetWeatherDataForSite(outcome)
    \/ ReturnFromDownload
    \/ Commit

SpecWeather == InitWeather /\ [][NextWeather]_vars

(***************************************************************************)
(* gen_seconds_per_bucket alone: the call is drawn, then made.             *)
(***************************************************************************)
InitGen ==
    /\ ts_data = [id \in TS_IDS |-> {}]
    /\ ts_interval = [id \in TS_IDS |-> None]
    /\ call \in { c \in GEN_CALLS :
                    /\ Instant(c.start_dt) < Instant(c.end_dt)
                    /\ Feasible(c.start_dt, c.end_dt, c.multiplier, c.unit) }
    /\ ret = NoResult
    /\ NoInvocations
    /\ NoWeatherTask

\* ret = gen_seconds_per_bucket(start_dt, end_dt, multiplier, unit, timezone)
GenSecondsPerBucket ==
    /\ call.fn = "gen_seconds_per_bucket"
    /\ ret = NoResult
    /\ ret' = gen_seconds_per_bucket(call.start_dt, call.end_dt, call.multiplier,
                                     call.unit, call.timezone)
    /\ UNCHANGED <<ts_data, ts_interval, call>>
    /\ UNCHANGED <<invocations, weather_vars>>

NextGen == GenSecondsPerBucket

SpecGen == InitGen /\ [][NextGen]_vars

(***************************************************************************)
(* Properties of gen_seconds_per_bucket (checked under SpecGen).           *)
(***************************************************************************)
GenReturned == call.fn = "gen_seconds_per_bucket" /\ ret.status = "returned"

StartInstant == Instant(call.start_dt)
EndInstant == Instant(call.end_dt)
Starts == [i \in DOMAIN ret.value.index |-> Instant(ret.value.index[i])]
Seconds == ret.value.seconds
NBuckets == Len(ret.value.index)

\* C1: a call with a valid unit and a multiplier >= 1 returns a well formed
\* grid: as many durations as bucket starts, at least one bucket, strictly
\* increasing bucket starts, and the last bucket start strictly before end.
C1_GridWellFormed ==
    ( /\ call.fn = "gen_seconds_per_bucket"
      /\ ret # NoResult
      /\ call.unit \in {"second", "minute", "hour", "day", "week", "month", "year"}
      /\ call.multiplier >= 1 )
    => /\ ret.status = "returned"
       /\ Len(ret.value.seconds) = Len(ret.value.index)
       /\ NBuckets >= 1
       /\ \A i \in 1..(NBuckets - 1) : Starts[i] < Starts[i + 1]
       /\ Starts[NBuckets] < EndInstant

C1_Witness ==
    /\ GenReturned
    /\ call.unit = "week"
    /\ NBuckets = 4

\* C2: for second, minute, hour and day the grid is not snapped: bucket k
\* (from 0) starts at start + k * multiplier * unit length, so the first one
\* starts at the caller's start instant, and every start is in [start, end).
C2_FixedUnitsStartAtStart ==
    (GenReturned /\ call.unit \in {"second", "minute", "hour", "day"})
    => \A i \in 1..NBuckets :
          /\ Starts[i] = StartInstant
                + (i - 1) * call.multiplier
                    * (CASE call.unit = "second" -> 1
                         [] call.unit = "minute" -> 60
                         [] call.unit = "hour"   -> 3600
                         [] call.unit = "day"    -> 86400)
          /\ StartInstant <= Starts[i]
          /\ Starts[i] < EndInstant

\* Hour buckets from 00:12:43 UTC, laid on the clock of Europe/Paris.
C2_Witness ==
    /\ GenReturned
    /\ call.unit = "hour"
    /\ call.start_dt = Utc(2020, 1, 1, 0, 12, 43)
    /\ call.timezone = "Europe/Paris"
    /\ NBuckets = 3
    /\ ret.value.index[1] = Aware(Datetime(2020, 1, 1, 1, 12, 43), "Europe/Paris")

FixedUnitSeconds ==
    call.multiplier * (CASE call.unit = "second" -> 1
                         [] call.unit = "minute" -> 60
                         [] call.unit = "hour"   -> 3600
                         [] call.unit = "day"    -> 86400)

\* C3 as stated: for second, minute, hour and day every bucket, the last one
\* included, lasts exactly multiplier * unit_seconds.
C3_Original ==
    (GenReturned /\ call.unit \in {"second", "minute", "hour", "day"})
    => \A i \in 1..NBuckets : Seconds[i] = FixedUnitSeconds

\* C3 amended: for second, minute, hour and day every bucket but the last
\* lasts exactly multiplier * unit_seconds; the last one lasts from its start
\* to end, which is multiplier * unit_seconds at most.
C3_FixedUnitsDurations ==
    (GenReturned /\ call.unit \in {"second", "minute", "hour", "day"})
    => /\ \A i \in 1..(NBuckets - 1) : Seconds[i] = FixedUnitSeconds
       /\ Seconds[NBuckets] = EndInstant - Starts[NBuckets]
       /\ Seconds[NBuckets] > 0
       /\ Seconds[NBuckets] <= FixedUnitSeconds

\* 00:30 to 03:00 by the hour: the third bucket lasts half an hour.
C3_Witness ==
    /\ GenReturned
    /\ call.unit = "hour"
    /\ call.multiplier = 1
    /\ call.start_dt = Utc(2020, 1, 1, 0, 30, 0)
    /\ call.end_dt = Utc(2020, 1, 1, 3, 0, 0)
    /\ Seconds = <<3600, 3600, 1800>>

\* The clock of the grid: bucket starts and start as naive datetimes of the zone.
Walls == [i \in DOMAIN ret.value.index |-> ret.value.index[i].wall]
StartWall == StartInstant + UtcOffset(call.timezone)
CivilOfWall(wall) == CivilFromDays(wall \div 86400)

\* C4: for week, month and year the first bucket start is start snapped down,
\* on the clock of the target zone, to midnight of the Monday at or before
\* start, of the 1st of start's month, or of January 1 of start's year; it is
\* not after start, and each next bucket start is multiplier weeks, months or
\* years later.
C4_CalendarUnitsSnapDown ==
    (GenReturned /\ call.unit \in {"week", "month", "year"})
    => /\ \A i \in 1..NBuckets :
             /\ ret.value.index[i].tz = call.timezone
             /\ Walls[i] % 86400 = 0
       /\ Starts[1] <= StartInstant
       /\ call.unit = "week" =>
             /\ Weekday(Walls[1] \div 86400) = 0
             /\ StartWall - Walls[1] < 7 * 86400
             /\ \A i \in 1..(NBuckets - 1) :
                   Walls[i + 1] = Walls[i] + call.multiplier * 7 * 86400
       /\ call.unit = "month" =>
             /\ CivilOfWall(Walls[1])[3] = 1
             /\ CivilOfWall(Walls[1])[1] = CivilOfWall(StartWall)[1]
             /\ CivilOfWall(Walls[1])[2] = CivilOfWall(StartWall)[2]
             /\ \A i \in 1..(NBuckets - 1) :
                   /\ CivilOfWall(Walls[i + 1])[3] = 1
                   /\ 12 * CivilOfWall(Walls[i + 1])[1] + CivilOfWall(Walls[i + 1])[2]
                        = 12 * CivilOfWall(Walls[i])[1] + CivilOfWall(Walls[i])[2]
                            + call.multiplier
       /\ call.unit = "year" =>
             /\ CivilOfWall(Walls[1])[3] = 1
             /\ CivilOfWall(Walls[1])[2] = 1
             /\ CivilOfWall(Walls[1])[1] = CivilOfWall(StartWall)[1]
             /\ \A i \in 1..(NBuckets - 1) :
                   CivilOfWall(Walls[i + 1])
                       = <<CivilOfWall(Walls[i])[1] + call.multiplier, 1, 1>>

\* Weeks from Wednesday 2020-01-01 00:00 UTC on the clock of Europe/Paris: the
\* first bucket starts on Monday 2019-12-30 00:00 in Paris, before start.
C4_Witness ==
    /\ GenReturned
    /\ call.unit = "week"
    /\ call.start_dt = Utc(2020, 1, 1, 0, 0, 0)
    /\ call.timezone = "Europe/Paris"
    /\ NBuckets >= 2
    /\ ret.value.index[1] = Aware(Datetime(2019, 12, 30, 0, 0, 0), "Europe/Paris")
    /\ Starts[1] < StartInstant

\* The boundary that closes the last bucket of a week, month or year grid.
LastBoundary ==
    LET last == Walls[NBuckets]
        c    == CivilOfWall(last)
        mi   == 12 * c[1] + (c[2] - 1)
                  + (IF call.unit = "month" THEN call.multiplier
                                            ELSE 12 * call.multiplier)
    IN  (IF call.unit = "week"
         THEN last + call.multiplier * 7 * 86400
         ELSE DaysFromCivil(mi \div 12, (mi % 12) + 1, 1) * 86400)
        - UtcOffset(call.timezone)

\* C5 as stated: for week, month and year the durations sum to the seconds
\* between the first boundary and the last boundary of the grid (the last
\* boundary read as the end of the last bucket, or as its start).
C5_Original ==
    (GenReturned /\ call.unit \in {"week", "month", "year"})
    => \/ SumSeq(Seconds) = LastBoundary - Starts[1]
       \/ SumSeq(Seconds) = Starts[NBuckets] - Starts[1]

\* C5 amended: for week, month and year the durations sum to the seconds
\* between the caller's start and the caller's end.
C5_CalendarDurationsSum ==
    (GenReturned /\ call.unit \in {"week", "month", "year"})
    => SumSeq(Seconds) = EndInstant - StartInstant

\* Months from 2020-01-30 to 2020-03-03: 2 + 29 + 2 days, in a grid that
\* spans 2020-01-01 to 2020-04-01.
C5_Witness ==
    /\ GenReturned
    /\ call.unit = "month"
    /\ call.multiplier = 1
    /\ call.start_dt = Utc(2020, 1, 30, 0, 0, 0)
    /\ call.end_dt = Utc(2020, 3, 3, 0, 0, 0)
    /\ Seconds = <<2 * 86400, 29 * 86400, 2 * 86400>>
    /\ Starts[1] < StartInstant
    /\ LastBoundary > EndInstant

\* C6: the duration of a bucket is the number of its seconds inside
\* [start, end): from the later of its start and start, to the next bucket
\* start, or to end for the last bucket; so the durations sum to end - start.
C6_DurationsClippedToRange ==
    GenReturned
    => /\ \A i \in 1..NBuckets :
             Seconds[i] =
                 (IF i < NBuckets THEN Starts[i + 1] ELSE EndInstant)
                   - (IF Starts[i] < StartInstant THEN StartInstant ELSE Starts[i])
       /\ SumSeq(Seconds) = EndInstant - StartInstant

\* Weeks from 2020-01-01 to 2020-01-22: the week of Monday 2019-12-30 counts
\* 5 days and the week of Monday 2020-01-20 counts 2.
C6_Witness ==
    /\ GenReturned
    /\ call.unit = "week"
    /\ call.multiplier = 1
    /\ call.timezone = "UTC"
    /\ call.start_dt = Utc(2020, 1, 1, 0, 0, 0)
    /\ call.end_dt = Utc(2020, 1, 22, 0, 0, 0)
    /\ ret.value.index[1] = Utc(2019, 12, 30, 0, 0, 0)
    /\ Seconds = <<5 * 86400, 7 * 86400, 7 * 86400, 2 * 86400>>

(***************************************************************************)
(* Properties of compute_completeness (checked under Spec).                *)
(***************************************************************************)
ComputeReturned == call.fn = "compute_completeness" /\ ret.status = "returned"

RequestedIds == {call.timeseries[k].id : k \in DOMAIN call.timeseries}

Report(id) == ret.value.timeseries[id]

\* The stored samples of a series stamped in [start_dt, end_dt).
SamplesInRange(id) ==
    {t \in ts_data[id] : Instant(call.start_dt) <= t /\ t < Instant(call.end_dt)}

\* The durations of the buckets of the call.
GridSeconds ==
    gen_seconds_per_bucket(call.start_dt, call.end_dt, call.multiplier, call.unit,
                           call.timezone).value.seconds

\* C7: when the unit is none of second, minute, hour, day, week, month, year
\* or the multiplier is <= 0, compute_completeness raises the period error
\* and returns nothing: no report, whatever the series hold.
C7_InvalidPeriodRaises ==
    ( /\ call.fn = "compute_completeness"
      /\ \/ call.unit \notin {"second", "minute", "hour", "day", "week", "month", "year"}
         \/ call.multiplier <= 0 )
    => /\ ret.status = "raised"
       /\ ret.error = "BEMServerCorePeriodError"
       /\ DOMAIN ret = {"status", "error"}

C7_Witness ==
    /\ call.fn = "compute_completeness"
    /\ call.unit = "hour"
    /\ call.multiplier = 0
    /\ ret.status = "raised"
    /\ call.timeseries = TIMESERIES
    /\ \A id \in RequestedIds : SamplesInRange(id) # {}

\* C8: in a report, a series with a declared interval has that value as its
\* interval, whatever its samples, and undefined_interval False; a series
\* with none has undefined_interval True.
C8_DeclaredIntervalVerbatim ==
    ComputeReturned
    => \A id \in RequestedIds :
          /\ ts_interval[id] \in {None, <<6, 0, 0>>, <<1, 2, 0, 0>>}
          /\ ts_interval[id] = <<6, 0, 0>> => Report(id).interval = <<600, 1>>
          /\ ts_interval[id] = <<1, 2, 0, 0>> => Report(id).interval = <<1200, 1>>
          /\ Report(id).undefined_interval = (ts_interval[id] = None)

\* Declared 1200 s on samples 430 s apart, beside a series with no
\* declared interval.
C8_Witness ==
    /\ ComputeReturned
    /\ call.timeseries = TIMESERIES
    /\ ts_interval[1] = <<1, 2, 0, 0>>
    /\ Cardinality(SamplesInRange(1)) = 26
    /\ Report(1).interval = <<1200, 1>>
    /\ Report(1).undefined_interval = FALSE
    /\ ts_interval[2] = None
    /\ Report(2).undefined_interval = TRUE

SetMin(S) == CHOOSE t \in S : \A u \in S : t <= u
SetMax(S) == CHOOSE t \in S : \A u \in S : u <= t

\* C9 as stated: without a declared interval and with at least 2 samples in
\* range, the interval is the mean gap between consecutive samples,
\* (last - first) / (number of samples - 1).
C9_Original ==
    ComputeReturned
    => \A id \in RequestedIds :
          (ts_interval[id] = None /\ Cardinality(SamplesInRange(id)) >= 2)
          => /\ Report(id).interval # None
             /\ Report(id).interval[1] * (Cardinality(SamplesInRange(id)) - 1)
                  = (SetMax(SamplesInRange(id)) - SetMin(SamplesInRange(id)))
                      * Report(id).interval[2]

\* C9 amended: without a declared interval and with at least 2 samples in
\* range, the interval is the smallest bucket duration / observed count over
\* the buckets that hold samples.
C9_IntervalFromDensestBucket ==
    ComputeReturned
    => \A id \in RequestedIds :
          (ts_interval[id] = None /\ Cardinality(SamplesInRange(id)) >= 2)
          => /\ Report(id).interval # None
             /\ \E i \in DOMAIN GridSeconds :
                   /\ Report(id).count[i] > 0
                   /\ Report(id).interval[1] * Report(id).count[i]
                        = GridSeconds[i] * Report(id).interval[2]
             /\ \A j \in DOMAIN GridSeconds :
                   Report(id).count[j] > 0
                   => Report(id).interval[1] * Report(id).count[j]
                        <= GridSeconds[j] * Report(id).interval[2]

\* Samples 600 s apart then 430 s apart, by the hour from 00:00 to 03:00:
\* counts 5, 0 and 9, interval 3600 / 9 = 400 s, mean gap 10640 / 13 s.
C9_Witness ==
    /\ ComputeReturned
    /\ call.timeseries = TIMESERIES
    /\ call.unit = "hour"
    /\ call.multiplier = 1
    /\ ts_interval[1] = None
    /\ Report(1).count = <<5, 0, 9>>
    /\ Report(1).interval = <<400, 1>>
    /\ SetMax(SamplesInRange(1)) - SetMin(SamplesInRange(1)) = 10640

\* C10: without a declared interval and with exactly one sample in range,
\* the interval is None, undefined_interval is True, and the expected count
\* and the ratio of every bucket are None.
C10_OneSampleNoInterval ==
    ComputeReturned
    => \A id \in RequestedIds :
          (ts_interval[id] = None /\ Cardinality(SamplesInRange(id)) = 1)
          => /\ Report(id).interval = None
             /\ Report(id).undefined_interval = TRUE
             /\ \A i \in DOMAIN Report(id).count :
                   /\ Report(id).expected_count[i] = None
                   /\ Report(id).ratio[i] = None

\* One sample at 00:40, in the first of three hour buckets from 00:00 or 00:30.
C10_Witness ==
    /\ ComputeReturned
    /\ call.timeseries = TIMESERIES
    /\ ts_interval[1] = None
    /\ Cardinality(SamplesInRange(1)) = 1
    /\ Report(1).count = <<1, 0, 0>>
    /\ Report(1).total_count = 1
    /\ Report(1).interval = None

\* C11: in a report, the expected count of every bucket of a series with an
\* interval is the bucket's seconds divided by the interval, as a quotient
\* that is not truncated (60 s at 600 s is 1/10, 1800 s at 1200 s is 3/2);
\* for a series whose interval is None it is None in every bucket.
C11_ExpectedCountQuotient ==
    ComputeReturned
    => \A id \in RequestedIds :
          \A i \in DOMAIN GridSeconds :
             IF Report(id).interval = None
             THEN Report(id).expected_count[i] = None
             ELSE /\ Report(id).expected_count[i] # None
                  /\ Report(id).expected_count[i][2] > 0
                  /\ Report(id).expected_count[i][1] * Report(id).interval[1]
                       = GridSeconds[i] * Report(id).interval[2]
                           * Report(id).expected_count[i][2]

\* Hour buckets from 00:30 to 03:00 at a declared 1200 s: 3, 3 and 1.5
\* expected; the other series has no interval and no expected count.
C11_Witness ==
    /\ ComputeReturned
    /\ call.timeseries = TIMESERIES
    /\ GridSeconds = <<3600, 3600, 1800>>
    /\ Report(1).interval = <<1200, 1>>
    /\ Report(1).expected_count = << <<3, 1>>, <<3, 1>>, <<3, 2>> >>
    /\ Report(2).interval = None
    /\ Report(2).expected_count = <<None, None, None>>

\* C12: in a report, the ratio of a bucket is the observed count divided by
\* the expected count when the expected count is defined and not zero, and
\* None otherwise; the call returns (no division error).
C12_RatioObservedOverExpected ==
    (call.fn = "compute_completeness" /\ ValidPeriod(call.multiplier, call.unit))
    => /\ ret.status = "returned"
       /\ \A id \in RequestedIds :
             \A i \in DOMAIN GridSeconds :
                IF /\ Report(id).expected_count[i] # None
                   /\ Report(id).expected_count[i][1] # 0
                THEN /\ Report(id).ratio[i] # None
                     /\ Report(id).ratio[i][2] > 0
                     /\ Report(id).ratio[i][1] * Report(id).expected_count[i][1]
                          = Report(id).count[i] * Report(id).expected_count[i][2]
                              * Report(id).ratio[i][2]
                ELSE Report(id).ratio[i] = None

\* 10 min samples with a gap, declared 600 s, by the hour: 5, 0 and 6
\* samples for 6 expected; the other series has one sample and no interval.
C12_Witness ==
    /\ ComputeReturned
    /\ call.timeseries = TIMESERIES
    /\ Report(1).count = <<5, 0, 6>>
    /\ Report(1).expected_count = << <<6, 1>>, <<6, 1>>, <<6, 1>> >>
    /\ Report(1).ratio = << <<5, 6>>, <<0, 1>>, <<1, 1>> >>
    /\ Report(2).total_count = 1
    /\ Report(2).ratio = <<None, None, None>>

\* Sum of the ratios of the first n buckets of a series that are not None,
\* as a fraction in lowest terms, and the number of those ratios.
RECURSIVE RatioSum(_, _)
RatioSum(id, n) ==
    IF n = 0
    THEN <<0, 1>>
    ELSE IF Report(id).ratio[n] = None
         THEN RatioSum(id, n - 1)
         ELSE FracAdd(RatioSum(id, n - 1), Report(id).ratio[n])

RatioCount(id) ==
    Cardinality({i \in DOMAIN Report(id).ratio : Report(id).ratio[i] # None})

RECURSIVE CountSum(_, _)
CountSum(id, n) == IF n = 0 THEN 0 ELSE Report(id).count[n] + CountSum(id, n - 1)

\* C13: in a report over N buckets, total_count of a series is the sum of
\* its N counts, avg_count is total_count / N, and avg_ratio is the sum of
\* the ratios that are not None divided by their number, or None when every
\* ratio is None.
C13_TotalsAndAverages ==
    ComputeReturned
    => \A id \in RequestedIds :
          LET N == Len(ret.value.timestamps)
          IN  /\ Report(id).total_count = CountSum(id, N)
              /\ Report(id).avg_count[2] > 0
              /\ Report(id).avg_count[1] * N
                   = Report(id).total_count * Report(id).avg_count[2]
              /\ IF RatioCount(id) = 0
                 THEN Report(id).avg_ratio = None
                 ELSE /\ Report(id).avg_ratio # None
                      /\ Report(id).avg_ratio[2] > 0
                      /\ Report(id).avg_ratio[1] * RatioCount(id) * RatioSum(id, N)[2]
                           = RatioSum(id, N)[1] * Report(id).avg_ratio[2]

\* Ratios 5/6, 0 and 1: the mean is 11/18, the bucket of ratio 0 counted;
\* the other series has no ratio at all and avg_ratio None.
C13_Witness ==
    /\ ComputeReturned
    /\ call.timeseries = TIMESERIES
    /\ Report(1).count = <<5, 0, 6>>
    /\ Report(1).ratio = << <<5, 6>>, <<0, 1>>, <<1, 1>> >>
    /\ Report(1).total_count = 11
    /\ Report(1).avg_count = <<11, 3>>
    /\ Report(1).avg_ratio = <<11, 18>>
    /\ Report(2).ratio = <<None, None, None>>
    /\ Report(2).avg_ratio = None

\* C14 as stated: a series with no sample in range, with or without a
\* declared interval, has a count of 0 in every bucket, total_count 0,
\* avg_count 0 and avg_ratio None; without a declared interval its interval
\* is None and its expected count and ratio are None in every bucket.
C14_Original ==
    ComputeReturned
    => \A id \in RequestedIds :
          SamplesInRange(id) = {}
          => /\ \A i \in DOMAIN Report(id).count : Report(id).count[i] = 0
             /\ Report(id).total_count = 0
             /\ Report(id).avg_count = <<0, 1>>
             /\ Report(id).avg_ratio = None
             /\ ts_interval[id] = None
                => /\ Report(id).interval = None
                   /\ \A i \in DOMAIN Report(id).count :
                         /\ Report(id).expected_count[i] = None
                         /\ Report(id).ratio[i] = None

\* C14 amended: a series with no sample in range has a count of 0 in every
\* bucket, total_count 0 and avg_count 0.  Without a declared interval its
\* interval is None, its expected count and ratio are None in every bucket
\* and its avg_ratio is None; with a declared interval its expected counts
\* are defined, its ratio is 0 in every bucket and its avg_ratio is 0.
C14_NoSamples ==
    ComputeReturned
    => \A id \in RequestedIds :
          SamplesInRange(id) = {}
          => /\ Len(Report(id).count) = Len(ret.value.timestamps)
             /\ \A i \in DOMAIN Report(id).count : Report(id).count[i] = 0
             /\ Report(id).total_count = 0
             /\ Report(id).avg_count = <<0, 1>>
             /\ IF ts_interval[id] = None
                THEN /\ Report(id).interval = None
                     /\ Report(id).undefined_interval = TRUE
                     /\ Report(id).avg_ratio = None
                     /\ \A i \in DOMAIN Report(id).count :
                           /\ Report(id).expected_count[i] = None
                           /\ Report(id).ratio[i] = None
                ELSE /\ Report(id).interval # None
                     /\ Report(id).avg_ratio = <<0, 1>>
                     /\ \A i \in DOMAIN Report(id).count :
                           /\ Report(id).expected_count[i] # None
                           /\ Report(id).ratio[i] = <<0, 1>>

\* Two series with no sample at all, over three hour buckets: one declared
\* at 600 s, the other without a declared interval.
C14_Witness ==
    /\ ComputeReturned
    /\ call.timeseries = TIMESERIES
    /\ Len(ret.value.timestamps) = 3
    /\ ts_data[1] = {}
    /\ ts_interval[1] = <<6, 0, 0>>
    /\ Report(1).count = <<0, 0, 0>>
    /\ Report(1).avg_ratio = <<0, 1>>
    /\ ts_data[2] = {}
    /\ ts_interval[2] = None
    /\ Report(2).count = <<0, 0, 0>>
    /\ Report(2).interval = None
    /\ Report(2).avg_ratio = None

\* C15: a call that returns gives a report with one entry for each series
\* asked for, whatever the series holds, each with a count, an expected
\* count and a ratio for each of the report's timestamps, bucket by bucket.
C15_ReportShape ==
    (call.fn = "compute_completeness" /\ ValidPeriod(call.multiplier, call.unit))
    => /\ ret.status = "returned"
       /\ DOMAIN ret.value = {"timestamps", "timeseries"}
       /\ Len(ret.value.timestamps) >= 1
       /\ DOMAIN ret.value.timeseries = RequestedIds
       /\ \A id \in RequestedIds :
             /\ DOMAIN Report(id)
                  = {"name", "count", "ratio", "total_count", "avg_count", "avg_ratio",
                     "interval", "undefined_interval", "expected_count"}
             /\ Report(id).name = TsName(id)
             /\ DOMAIN Report(id).count = DOMAIN ret.value.timestamps
             /\ DOMAIN Report(id).expected_count = DOMAIN ret.value.timestamps
             /\ DOMAIN Report(id).ratio = DOMAIN ret.value.timestamps
             /\ \A i \in DOMAIN ret.value.timestamps :
                   Report(id).count[i]
                     = Cardinality({t \in SamplesInRange(id) :
                          /\ Instant(ret.value.timestamps[i]) <= t
                          /\ i < Len(ret.value.timestamps)
                             => t < Instant(ret.value.timestamps[i + 1])})

\* Three hour buckets; a series with samples in the first and the last
\* bucket only, beside a series with a single sample and one without data.
C15_Witness ==
    /\ ComputeReturned
    /\ call.timeseries = TIMESERIES
    /\ Len(ret.value.timestamps) = 3
    /\ Report(1).count = <<5, 0, 9>>
    /\ Len(Report(1).ratio) = 3
    /\ Report(2).total_count <= 1
    /\ Len(Report(2).count) = 3
    /\ Len(Report(2).expected_count) = 3

\* The report the explicit convention gives for the store, range, series
\* and zone of the call under way, with a given multiplier and unit.
ExplicitReport(multiplier, unit) ==
    compute_completeness(ts_data, ts_interval, call.start_dt, call.end_dt,
                         call.timeseries, multiplier, unit, call.timezone)

SampledEvery(id, T) ==
    LET first == {t \in ts_data[id] : t - T \notin ts_data[id]}
        last  == {t \in ts_data[id] : t + T \notin ts_data[id]}
    IN  /\ Cardinality(first) = 1
        /\ Cardinality(last) = 1
        /\ \A t \in first : t <= Instant(call.start_dt)
        /\ \A t \in last : t + T >= Instant(call.end_dt)

\* The declared interval of a series, in seconds (0 when there is none).
DeclaredSeconds(id) ==
    CASE ts_interval[id] = <<6, 0, 0>>          -> 600
      [] ts_interval[id] = <<1, 2, 0, 0>>       -> 1200
      [] ts_interval[id] = <<1, 7, 2, 8, 0, 0>> -> 172800
      [] OTHER                                  -> 0

\* Bucket i of the report lies in the range from its first to its last second.
FullBucket(i) ==
    /\ Instant(call.start_dt) <= Instant(ret.value.timestamps[i])
    /\ GridSeconds[i] = AddPeriod(ret.value.timestamps[i].wall, call.multiplier, call.unit)
                           - ret.value.timestamps[i].wall

\* C17 as stated: for a series sampled every T seconds over the whole range
\* with a declared interval D > T, the ratio is above 1 in every bucket that
\* lies fully inside the range, whatever the unit and the multiplier.
C17_Original ==
    ComputeReturned
    => \A id \in RequestedIds, T \in {430, 600, 86400} :
          (SampledEvery(id, T) /\ DeclaredSeconds(id) > T)
          => \A i \in DOMAIN GridSeconds :
                FullBucket(i)
                => /\ Report(id).ratio[i] # None
                   /\ Report(id).ratio[i][1] > Report(id).ratio[i][2]

\* T * D / (D - T) seconds, rounded up, for D > T: T + T * T / (D - T).
LongEnough(T, D) ==
    LET q == Frac(T, D - T) IN T + (T * q[1] + q[2] - 1) \div q[2]

\* C17 amended: for a series sampled every T seconds over the whole range
\* with a declared interval D > T, the ratio is above 1 in every bucket that
\* lies fully inside the range and lasts at least T * D / (D - T) seconds.
C17_RatioAboveOne ==
    ComputeReturned
    => \A id \in RequestedIds, T \in {430, 600, 86400} :
          (SampledEvery(id, T) /\ DeclaredSeconds(id) > T)
          => \A i \in DOMAIN GridSeconds :
                (FullBucket(i) /\ GridSeconds[i] >= LongEnough(T, DeclaredSeconds(id)))
                => /\ Report(id).ratio[i] # None
                   /\ Report(id).ratio[i][1] > Report(id).ratio[i][2]

\* One sample every 430 s declared at 1200 s, by the hour from 00:00 to
\* 03:00: 9, 8 and 9 samples for 3 expected; beside it, one sample a day
\* declared at two days.
C17_Witness ==
    /\ ComputeReturned
    /\ call.unit = "hour"
    /\ call.multiplier = 1
    /\ SampledEvery(1, 430)
    /\ DeclaredSeconds(1) = 1200
    /\ \A i \in 1..3 : FullBucket(i)
    /\ Report(1).count = <<9, 8, 9>>
    /\ Report(1).ratio = << <<3, 1>>, <<8, 3>>, <<3, 1>> >>

\* One sample a day declared at two days, by the month from 2019-12-01 to
\* 2020-02-01: 31 samples a month for 15.5 expected.
C17_MonthBuckets ==
    /\ ComputeReturned
    /\ call.unit = "month"
    /\ call.multiplier = 1
    /\ SampledEvery(1, 86400)
    /\ DeclaredSeconds(1) = 172800
    /\ Len(ret.value.timestamps) = 2
    /\ \A i \in 1..2 : FullBucket(i)
    /\ Report(1).count = <<31, 31>>
    /\ Report(1).ratio = << <<2, 1>>, <<2, 1>> >>

(***************************************************************************)
(* Series sampled on the grid of their declared interval (under Spec).     *)
(***************************************************************************)
\* The instants start + k * I that fall in bucket i of the report.
GridInstants(i, I) ==
    LET first == IF Instant(ret.value.timestamps[i]) < Instant(call.start_dt)
                 THEN Instant(call.start_dt)
                 ELSE Instant(ret.value.timestamps[i])
    IN  {first + k * I : k \in 0..((GridSeconds[i] \div I) - 1)}

\* The samples in range of a series with a declared interval I are stamped
\* start + k * I, and every bucket lasts a multiple of I.
OnGrid(id, I) ==
    /\ I > 0
    /\ \A t \in SamplesInRange(id) : (t - Instant(call.start_dt)) % I = 0
    /\ \A i \in DOMAIN GridSeconds : GridSeconds[i] % I = 0

\* C18: for a series with a declared interval I whose samples are stamped
\* start + k * I, and buckets that last multiples of I, a bucket with a
\* sample at each of its instants start + k * I has ratio exactly 1, and a
\* bucket with such an instant without a sample has a ratio below 1; when no
\* instant of the range lacks a sample, avg_ratio is 1.
C18_OnGridRatio ==
    ComputeReturned
    => \A id \in RequestedIds :
          OnGrid(id, DeclaredSeconds(id))
          => /\ \A i \in DOMAIN GridSeconds :
                   IF GridInstants(i, DeclaredSeconds(id)) \subseteq ts_data[id]
                   THEN Report(id).ratio[i] = <<1, 1>>
                   ELSE /\ Report(id).ratio[i] # None
                        /\ Report(id).ratio[i][1] >= 0
                        /\ Report(id).ratio[i][1] < Report(id).ratio[i][2]
             /\ (\A i \in DOMAIN GridSeconds :
                    GridInstants(i, DeclaredSeconds(id)) \subseteq ts_data[id])
                => Report(id).avg_ratio = <<1, 1>>

\* Hour buckets from 00:30 to 03:00, both series declared at 600 s: the one
\* with a gap from 00:50 to 02:00 has ratios 1/3, 1/2 and 1, the full one
\* has 1, 1 and 1 (the last bucket lasts half an hour).
C18_Witness ==
    /\ ComputeReturned
    /\ call.timeseries = TIMESERIES
    /\ GridSeconds = <<3600, 3600, 1800>>
    /\ OnGrid(1, 600)
    /\ DeclaredSeconds(1) = 600
    /\ Report(1).count = <<2, 3, 3>>
    /\ Report(1).ratio = << <<1, 3>>, <<1, 2>>, <<1, 1>> >>
    /\ OnGrid(2, 600)
    /\ DeclaredSeconds(2) = 600
    /\ Report(2).count = <<6, 6, 3>>
    /\ Report(2).ratio = << <<1, 1>>, <<1, 1>>, <<1, 1>> >>
    /\ Report(2).avg_ratio = <<1, 1>>

(***************************************************************************)
(* compute_completeness calls side by side (checked under SpecConc).       *)
(***************************************************************************)
\* C19: whatever the calls that run, one after another or in turns between
\* their requests to the store, no step changes the stored samples or the
\* declared intervals, and each call that ends has the result the same call
\* gives when it runs alone on the store.
C19_StatelessReadOnly ==
    /\ [][ts_data' = ts_data /\ ts_interval' = ts_interval]_vars
    /\ [](\A k \in INVOCATIONS :
            invocations[k].pc = "done"
            => invocations[k].ret
                 = compute_completeness(ts_data, ts_interval,
                      invocations[k].call.start_dt, invocations[k].call.end_dt,
                      invocations[k].call.timeseries, invocations[k].call.multiplier,
                      invocations[k].call.unit, invocations[k].call.timezone))

\* Call 1 has ended with a report while call 2, with other arguments, has
\* asked for the first of its two series only; series 2 has no declared
\* interval and an interval guessed by call 1.
C19_Witness ==
    /\ invocations[1].pc = "done"
    /\ invocations[1].ret.status = "returned"
    /\ invocations[1].ret.value.timeseries[2].interval = <<400, 1>>
    /\ invocations[2].pc = "fetch"
    /\ Len(invocations[2].reports) = 1
    /\ invocations[2].call # invocations[1].call
    /\ ts_interval[2] = None


\* The number of calls made to the weather data provider for a site.
CallsForSite(site) == Cardinality({i \in DOMAIN wdp_calls : wdp_calls[i].site = site})

\* download_weather_data has returned without raising.
DownloadReturned == task.pc \in {"commit", "done"}

\* C20: a run of download_weather_data that raises no error has called the
\* weather provider exactly once for each site configuration whose is_enabled
\* is true and never for a disabled one, and every call of the run has
\* received the same pair (start_dt, end_dt): floor(datetime) -
\* periods_before * offset and floor(datetime) + periods_after * offset.
C20_OncePerEnabledSite ==
    /\ DownloadReturned =>
          \A site \in SITES :
              CallsForSite(site) = IF st_dl_weather_data_by_site[site] THEN 1 ELSE 0
    /\ wdp_calls # <<>> =>
          LET args      == task.args
              round_dt  == floor(args.datetime, args.period, args.period_multiplier).value
              offset    == make_date_offset(args.period, args.period_multiplier).value
              start_dt  == AddOffsets(round_dt, 0 - args.periods_before, offset)
              end_dt    == AddOffsets(round_dt, args.periods_after, offset)
          IN  \A i \in DOMAIN wdp_calls :
                  /\ wdp_calls[i].start_dt = start_dt
                  /\ wdp_calls[i].end_dt = end_dt

\* A run over two enabled sites and a disabled one has returned, with a
\* datetime that is not on the grid of the period and periods on both sides.
C20_Witness ==
    /\ DownloadReturned
    /\ Len(wdp_calls) = 2
    /\ \E site \in SITES : ~st_dl_weather_data_by_site[site]
    /\ task.args.periods_before > 0
    /\ task.args.periods_after > 0
    /\ floor(task.args.datetime, task.args.period, task.args.period_multiplier).value
          # task.args.datetime


\* _make_date_range raises a period error on the arguments of the task.
PeriodErrorRaised ==
    \/ floor(task.args.datetime, task.args.period, task.args.period_multiplier).status
          = "raised"
    \/ make_date_offset(task.args.period, task.args.period_multiplier).status = "raised"

\* The calls made to the weather data provider, for a site, that returned.
ReturnedCalls(site) ==
    {i \in DOMAIN wdp_calls : wdp_calls[i].site = site /\ wdp_calls[i].outcome = "returned"}

\* C21: when flooring the datetime or building the period offset raises a
\* period error, the error is logged at critical level and re-raised as it
\* is, and the run makes no provider call and no commit; and a commit is
\* issued only after the provider call of every enabled site has returned
\* without error.
C21_PeriodErrorAndCommit ==
    /\ (task.pc \notin {"idle", "make_date_range"} /\ PeriodErrorRaised) =>
          /\ task.pc = "raised"
          /\ Raise(task.error) = PeriodError
          /\ logger # <<>>
          /\ logger[Len(logger)] = [level |-> "critical", msg |-> PeriodError.error]
          /\ wdp_calls = <<>>
          /\ commits = 0
    /\ commits > 0 =>
          /\ \A site \in SITES :
                st_dl_weather_data_by_site[site] => ReturnedCalls(site) # {}
          /\ \A i \in DOMAIN wdp_calls : wdp_calls[i].outcome = "returned"

\* The scheduled task has ended on a period error (here a multiplier of 0)
\* while the rows of two sites are enabled.
C21_Witness ==
    /\ task.pc = "raised"
    /\ task.entry = "dowload_weather_data_scheduled_task"
    /\ Raise(task.error) = PeriodError
    /\ task.args.period_multiplier = 0
    /\ Cardinality({site \in SITES : st_dl_weather_data_by_site[site]}) = 2

\* The scheduled task has committed after the calls for two enabled sites.
C21_CommitAfterCalls ==
    /\ commits = 1
    /\ Len(wdp_calls) = 2


(***************************************************************************)
(* The guessed interval and the densest bucket (checked under Spec).       *)
(***************************************************************************)
\* Bucket i of series id holds the most samples per second of bucket.
Densest(id, i) ==
    \A j \in DOMAIN GridSeconds :
        Report(id).count[j] * GridSeconds[i] <= Report(id).count[i] * GridSeconds[j]

\* No bucket of series id has a ratio above 1, and a densest bucket has
\* the ratio 1 exactly.
DensestBucketComplete(id) ==
    /\ \A i \in DOMAIN Report(id).ratio :
          Report(id).ratio[i] # None => FracLeq(Report(id).ratio[i], <<1, 1>>)
    /\ \E i \in DOMAIN Report(id).ratio :
          /\ Report(id).ratio[i] = <<1, 1>>
          /\ Densest(id, i)

====
